---- MODULE Spec2Model ----
(***************************************************************************)
(* Model of the node-content editor of src/features/modals/NodeModal:      *)
(* normalizeNodeData, updateJsonAtPath and the handleEdit / handleSave /   *)
(* handleCancel handlers of the NodeModal component, together with the two *)
(* stores they read and write (the document text of useJson, the nodes and *)
(* selectedNode of useGraph).                                              *)
(*                                                                         *)
(* Text is a sequence of one-character strings, so that JSON.parse,        *)
(* JSON.stringify(v, null, 2) and the template literal `${v}` are three    *)
(* different conversions.  JavaScript values are pairs <<tag, payload>>.   *)
(* Alphabet of the model: strings hold no quote, backslash or control      *)
(* character; numbers are integers.                                        *)
(***************************************************************************)
EXTENDS Integers, Sequences, FiniteSets, TLC

VARIABLES json, nodes, selectedNode, isEditing, editedContent,
          lastOp, pre, prevOp, prevPre, observed, saves, patch

vars == <<json, nodes, selectedNode, isEditing, editedContent,
          lastOp, pre, prevOp, prevPre, observed, saves, patch>>

(***************************************************************************)
(* JavaScript values                                                       *)
(***************************************************************************)
Undefined == <<"undefined", <<>>>>
Null == <<"null", <<>>>>
Throw == <<"throw", <<>>>>
Fn == <<"function", <<>>>>
Bool(b) == <<"boolean", b>>
Num(n) == <<"number", n>>
Str(s) == <<"string", s>>
Arr(es) == <<"array", es>>
Obj(ps) == <<"object", ps>>

Tag(v) == v[1]
Val(v) == v[2]

IsContainer(v) == Tag(v) \in {"array", "object"}

\* ToBoolean, for the values a row key can hold
Truthy(v) ==
  CASE Tag(v) \in {"undefined", "null"} -> FALSE
    [] Tag(v) = "boolean" -> Val(v)
    [] Tag(v) = "number" -> Val(v) # 0
    [] Tag(v) = "string" -> Val(v) # <<>>
    [] OTHER -> TRUE

DigitChars == <<"0", "1", "2", "3", "4", "5", "6", "7", "8", "9">>
DigitSet == {DigitChars[i] : i \in 1..10}
DigitValue(c) == (CHOOSE i \in 1..10 : DigitChars[i] = c) - 1

RECURSIVE NatDigits(_)
NatDigits(n) ==
  IF n < 10 THEN <<DigitChars[n + 1]>>
  ELSE NatDigits(n \div 10) \o <<DigitChars[(n % 10) + 1]>>

\* Number::toString for integers
NumberToString(n) == IF n < 0 THEN <<"-">> \o NatDigits(0 - n) ELSE NatDigits(n)

\* a canonical array index: "0" or digits without a leading zero
IsIndexKey(k) ==
  /\ Len(k) > 0
  /\ \A i \in 1..Len(k) : k[i] \in DigitSet
  /\ (Len(k) > 1 => k[1] # "0")

RECURSIVE DigitsToNat(_, _)
DigitsToNat(k, n) ==
  IF n = 0 THEN 0 ELSE DigitsToNat(k, n - 1) * 10 + DigitValue(k[n])

IndexOf(k) == DigitsToNat(k, Len(k))

(***************************************************************************)
(* Objects: the payload of an object is the sequence of its own            *)
(* <<key, value>> properties in enumeration order (canonical array indices *)
(* ascending first, then the other keys in insertion order).               *)
(***************************************************************************)
OwnIndex(ps, k) ==
  IF \E i \in 1..Len(ps) : ps[i][1] = k
  THEN CHOOSE i \in 1..Len(ps) : ps[i][1] = k
  ELSE 0

InsertAt(s, i, e) == SubSeq(s, 1, i - 1) \o <<e>> \o SubSeq(s, i, Len(s))

\* [[Set]] / CreateDataProperty of an own property of an ordinary object
SetOwn(ps, k, v) ==
  LET at == OwnIndex(ps, k) IN
  IF at # 0 THEN [ps EXCEPT ![at] = <<k, v>>]
  ELSE IF IsIndexKey(k)
       THEN LET before == Cardinality({i \in 1..Len(ps) :
                              IsIndexKey(ps[i][1]) /\ IndexOf(ps[i][1]) < IndexOf(k)})
            IN InsertAt(ps, before + 1, <<k, v>>)
       ELSE Append(ps, <<k, v>>)

\* names every object inherits from Object.prototype (the ones the model's
\* keys can spell; the remaining names of the prototype behave alike)
ObjectProtoNames ==
  { <<"c", "o", "n", "s", "t", "r", "u", "c", "t", "o", "r">>,
    <<"t", "o", "S", "t", "r", "i", "n", "g">>,
    <<"v", "a", "l", "u", "e", "O", "f">> }

LengthKey == <<"l", "e", "n", "g", "t", "h">>

\* ToPropertyKey of a path segment or of a row key
ToPropertyKey(seg) ==
  CASE Tag(seg) = "number" -> NumberToString(Val(seg))
    [] Tag(seg) = "string" -> Val(seg)
    [] Tag(seg) = "null" -> <<"n", "u", "l", "l">>
    [] OTHER -> <<"u", "n", "d", "e", "f", "i", "n", "e", "d">>

\* v[k]: Throw stands for the TypeError of reading a property of
\* undefined or null
GetProp(v, k) ==
  CASE Tag(v) \in {"undefined", "null", "throw"} -> Throw
    [] Tag(v) = "object" ->
         IF OwnIndex(Val(v), k) # 0 THEN Val(v)[OwnIndex(Val(v), k)][2]
         ELSE IF k \in ObjectProtoNames THEN Fn ELSE Undefined
    [] Tag(v) = "array" ->
         IF IsIndexKey(k) /\ IndexOf(k) < Len(Val(v)) THEN Val(v)[IndexOf(k) + 1]
         ELSE IF k = LengthKey THEN Num(Len(Val(v)))
         ELSE IF k \in ObjectProtoNames THEN Fn ELSE Undefined
    [] Tag(v) = "string" ->
         IF IsIndexKey(k) /\ IndexOf(k) < Len(Val(v))
         THEN Str(<<Val(v)[IndexOf(k) + 1]>>)
         ELSE IF k = LengthKey THEN Num(Len(Val(v)))
         ELSE IF k \in ObjectProtoNames THEN Fn ELSE Undefined
    [] OTHER -> IF k \in ObjectProtoNames THEN Fn ELSE Undefined

\* v[k] = x in strict mode (module code): the value v becomes, or Throw for
\* the TypeError of assigning to a property of undefined, null or a
\* primitive.  A non-index key set on an array is an expando property, which
\* JSON.stringify does not serialize; "length" is not a segment of the model.
SetProp(v, k, x) ==
  CASE Tag(v) = "object" -> Obj(SetOwn(Val(v), k, x))
    [] Tag(v) = "array" ->
         IF ~IsIndexKey(k) THEN v
         ELSE IF IndexOf(k) < Len(Val(v))
              THEN Arr([Val(v) EXCEPT ![IndexOf(k) + 1] = x])
              ELSE Arr(Val(v) \o [i \in 1..(IndexOf(k) - Len(Val(v))) |-> Undefined]
                         \o <<x>>)
    [] Tag(v) = "function" -> v
    [] OTHER -> Throw

(***************************************************************************)
(* JSON.stringify(value, null, 2)                                          *)
(***************************************************************************)
NullText == <<"n", "u", "l", "l">>
TrueText == <<"t", "r", "u", "e">>
FalseText == <<"f", "a", "l", "s", "e">>
UndefinedText == <<"u", "n", "d", "e", "f", "i", "n", "e", "d">>
NL == <<"\n">>

Spaces(n) == [i \in 1..n |-> " "]

Quote(s) == <<"\"">> \o s \o <<"\"">>

Serializable(v) == Tag(v) \notin {"undefined", "function", "throw"}

RECURSIVE Stringify(_, _)
RECURSIVE StringifyElements(_, _, _)
RECURSIVE StringifyMembers(_, _, _)

\* the elements es[i..], one per line at indentation ind
StringifyElements(es, i, ind) ==
  LET one == Spaces(ind) \o
             (IF Serializable(es[i]) THEN Stringify(es[i], ind) ELSE NullText)
  IN IF i = Len(es) THEN one
     ELSE one \o <<",">> \o NL \o StringifyElements(es, i + 1, ind)

\* the properties ps[i..] (all serializable), one per line at indentation ind
StringifyMembers(ps, i, ind) ==
  LET one == Spaces(ind) \o Quote(ps[i][1]) \o <<":", " ">> \o Stringify(ps[i][2], ind)
  IN IF i = Len(ps) THEN one
     ELSE one \o <<",">> \o NL \o StringifyMembers(ps, i + 1, ind)

Stringify(v, ind) ==
  CASE Tag(v) = "null" -> NullText
    [] Tag(v) = "boolean" -> IF Val(v) THEN TrueText ELSE FalseText
    [] Tag(v) = "number" -> NumberToString(Val(v))
    [] Tag(v) = "string" -> Quote(Val(v))
    [] Tag(v) = "array" ->
         IF Val(v) = <<>> THEN <<"[", "]">>
         ELSE <<"[">> \o NL \o StringifyElements(Val(v), 1, ind + 2) \o NL
              \o Spaces(ind) \o <<"]">>
    [] Tag(v) = "object" ->
         LET ps == SelectSeq(Val(v), LAMBDA p : Serializable(p[2])) IN
         IF ps = <<>> THEN <<"{", "}">>
         ELSE <<"{">> \o NL \o StringifyMembers(ps, 1, ind + 2) \o NL
              \o Spaces(ind) \o <<"}">>
    [] OTHER -> UndefinedText

\* JSON.stringify(value, null, 2); the handlers only pass values that
\* JSON.parse returned or objects, so the result is always a string
JSONStringify(v) == Stringify(v, 0)

(***************************************************************************)
(* The template literal `${value}` (ToString)                              *)
(***************************************************************************)
RECURSIVE ToStringJS(_)
RECURSIVE JoinElements(_, _)

JoinElements(es, i) ==
  LET one == IF Tag(es[i]) \in {"undefined", "null"} THEN <<>> ELSE ToStringJS(es[i])
  IN IF i = Len(es) THEN one ELSE one \o <<",">> \o JoinElements(es, i + 1)

ToStringJS(v) ==
  CASE Tag(v) = "undefined" -> UndefinedText
    [] Tag(v) = "null" -> NullText
    [] Tag(v) = "boolean" -> IF Val(v) THEN TrueText ELSE FalseText
    [] Tag(v) = "number" -> NumberToString(Val(v))
    [] Tag(v) = "string" -> Val(v)
    [] Tag(v) = "array" -> IF Val(v) = <<>> THEN <<>> ELSE JoinElements(Val(v), 1)
    [] Tag(v) = "object" ->
         <<"[", "o", "b", "j", "e", "c", "t", " ", "O", "b", "j", "e", "c", "t", "]">>
    [] OTHER -> <<"f", "u", "n", "c", "t", "i", "o", "n">>

(***************************************************************************)
(* JSON.parse(text): a recursive-descent parser over positions of the      *)
(* text.  A result is [ok, val, pos]: pos is the position after the value. *)
(***************************************************************************)
ParseFail == [ok |-> FALSE, val |-> Undefined, pos |-> 0]
ParseOk(v, p) == [ok |-> TRUE, val |-> v, pos |-> p]

IsWs(c) == c \in {" ", "\n"}

RECURSIVE SkipWs(_, _)
SkipWs(t, i) == IF i <= Len(t) /\ IsWs(t[i]) THEN SkipWs(t, i + 1) ELSE i

\* does the literal lit stand at position i of t
Matches(t, i, lit) ==
  /\ i + Len(lit) - 1 <= Len(t)
  /\ \A j \in 1..Len(lit) : t[i + j - 1] = lit[j]

\* the position of the closing quote of the string whose body starts at i,
\* or 0: a line break inside a string or an unterminated string
RECURSIVE StringEnd(_, _)
StringEnd(t, i) ==
  IF i > Len(t) \/ t[i] = "\n" THEN 0
  ELSE IF t[i] = "\"" THEN i
  ELSE StringEnd(t, i + 1)

ParseString(t, i) ==
  IF i > Len(t) \/ t[i] # "\"" THEN ParseFail
  ELSE LET e == StringEnd(t, i + 1) IN
       IF e = 0 THEN ParseFail ELSE ParseOk(Str(SubSeq(t, i + 1, e - 1)), e + 1)

RECURSIVE DigitsEnd(_, _)
DigitsEnd(t, i) == IF i <= Len(t) /\ t[i] \in DigitSet THEN DigitsEnd(t, i + 1) ELSE i

\* -? ( 0 | [1-9][0-9]* )
ParseNumber(t, i) ==
  LET neg == i <= Len(t) /\ t[i] = "-"
      s == IF neg THEN i + 1 ELSE i
  IN IF s > Len(t) \/ t[s] \notin DigitSet THEN ParseFail
     ELSE LET e == IF t[s] = "0" THEN s + 1 ELSE DigitsEnd(t, s)
              n == IndexOf(SubSeq(t, s, e - 1))
          IN ParseOk(Num(IF neg THEN 0 - n ELSE n), e)

RECURSIVE ParseValue(_, _)
RECURSIVE ParseElements(_, _, _)
RECURSIVE ParseMembers(_, _, _)

\* the elements of an array after "[" or ",": i is at the next element
ParseElements(t, i, acc) ==
  LET r == ParseValue(t, i) IN
  IF ~r.ok THEN ParseFail
  ELSE LET j == SkipWs(t, r.pos) IN
       IF j > Len(t) THEN ParseFail
       ELSE IF t[j] = "]" THEN ParseOk(Arr(Append(acc, r.val)), j + 1)
       ELSE IF t[j] = "," THEN ParseElements(t, j + 1, Append(acc, r.val))
       ELSE ParseFail

\* the members of an object after "{" or ",": i is at the next key
ParseMembers(t, i, acc) ==
  LET k == ParseString(t, SkipWs(t, i)) IN
  IF ~k.ok THEN ParseFail
  ELSE LET c == SkipWs(t, k.pos) IN
       IF c > Len(t) \/ t[c] # ":" THEN ParseFail
       ELSE LET r == ParseValue(t, c + 1) IN
            IF ~r.ok THEN ParseFail
            ELSE LET j == SkipWs(t, r.pos)
                     next == SetOwn(acc, Val(k.val), r.val)
                 IN IF j > Len(t) THEN ParseFail
                    ELSE IF t[j] = "}" THEN ParseOk(Obj(next), j + 1)
                    ELSE IF t[j] = "," THEN ParseMembers(t, j + 1, next)
                    ELSE ParseFail

ParseValue(t, i0) ==
  LET i == SkipWs(t, i0) IN
  IF i > Len(t) THEN ParseFail
  ELSE CASE t[i] = "{" ->
              LET j == SkipWs(t, i + 1) IN
              IF j <= Len(t) /\ t[j] = "}" THEN ParseOk(Obj(<<>>), j + 1)
              ELSE ParseMembers(t, i + 1, <<>>)
         [] t[i] = "[" ->
              LET j == SkipWs(t, i + 1) IN
              IF j <= Len(t) /\ t[j] = "]" THEN ParseOk(Arr(<<>>), j + 1)
              ELSE ParseElements(t, i + 1, <<>>)
         [] t[i] = "\"" -> ParseString(t, i)
         [] t[i] = "-" \/ t[i] \in DigitSet -> ParseNumber(t, i)
         [] OTHER ->
              IF Matches(t, i, NullText) THEN ParseOk(Null, i + 4)
              ELSE IF Matches(t, i, TrueText) THEN ParseOk(Bool(TRUE), i + 4)
              ELSE IF Matches(t, i, FalseText) THEN ParseOk(Bool(FALSE), i + 5)
              ELSE ParseFail

\* JSON.parse(text): ok = FALSE stands for the SyntaxError it throws
JSONParse(t) ==
  LET r == ParseValue(t, 1) IN
  IF r.ok /\ SkipWs(t, r.pos) = Len(t) + 1 THEN r ELSE ParseFail


(***************************************************************************)
(* Nodes and rows.  A row is [key, value, type]; the key of a row without  *)
(* a key is null.  A node is [id, path, text]: text is its list of rows,   *)
(* path a sequence of number and string segments.                          *)
(***************************************************************************)
Row(k, v, t) == [key |-> k, value |-> v, type |-> t]
Node(i, p, rows) == [id |-> i, path |-> p, text |-> rows]

\* useGraph's selectedNode when nothing is selected (null)
NullNode == Node(0, <<>>, <<>>)

(***************************************************************************)
(* normalizeNodeData                                                       *)
(***************************************************************************)
RECURSIVE CollectRows(_, _, _)
\* the forEach over the rows: obj[row.key] = row.value for the rows that are
\* neither array nor object and have a truthy key
CollectRows(nodeRows, i, obj) ==
  IF i > Len(nodeRows) THEN obj
  ELSE LET row == nodeRows[i] IN
       CollectRows(nodeRows, i + 1,
         IF row.type # "array" /\ row.type # "object" /\ Truthy(row.key)
         THEN SetOwn(obj, ToPropertyKey(row.key), row.value)
         ELSE obj)

normalizeNodeData(nodeRows) ==
  IF Len(nodeRows) = 0 THEN <<"{", "}">>
  ELSE IF Len(nodeRows) = 1 /\ ~Truthy(nodeRows[1].key) THEN ToStringJS(nodeRows[1].value)
  ELSE JSONStringify(Obj(CollectRows(nodeRows, 1, <<>>)))

(***************************************************************************)
(* updateJsonAtPath                                                        *)
(***************************************************************************)
\* an assignment made on the root instead of on the parent the walk addresses
UpdateAtRoot(cur, path, i, newValue) ==
  SetProp(cur, ToPropertyKey(path[Len(path)]), newValue)

RECURSIVE UpdateAt(_, _, _, _)
\* the walk to the parent and the assignment, on the tree the walk mutates
\* in place: the value cur becomes, or Throw for a TypeError
UpdateAt(cur, path, i, newValue) ==
  LET k == ToPropertyKey(path[i]) IN
  IF i = Len(path) THEN SetProp(cur, k, newValue)
  ELSE LET child == GetProp(cur, k)
           r == UpdateAt(child, path, i + 1, newValue)
       IN IF child = Throw \/ r = Throw THEN Throw
          ELSE IF IsContainer(child) THEN SetProp(cur, k, r)
          ELSE cur

\* a patch that serves the empty path before it has parsed the document
updateJsonAtPathUnparsed(text, path, newValue) ==
  IF Len(path) = 0 THEN JSONStringify(newValue)
  ELSE LET p == JSONParse(text) IN
       IF ~p.ok THEN text
       ELSE LET obj == UpdateAt(p.val, path, 1, newValue) IN
            IF obj = Throw THEN text ELSE JSONStringify(obj)

\* a patch that writes the new root with a template literal
updateJsonAtPathTemplate(text, path, newValue) ==
  LET p == JSONParse(text) IN
  IF ~p.ok THEN text
  ELSE IF Len(path) = 0 THEN ToStringJS(newValue)
  ELSE LET obj == UpdateAt(p.val, path, 1, newValue) IN
       IF obj = Throw THEN text ELSE JSONStringify(obj)

updateJsonAtPath(text, path, newValue) ==
  LET p == JSONParse(text) IN
  IF ~p.ok THEN text
  ELSE IF Len(path) = 0 THEN JSONStringify(newValue)
  ELSE LET obj == UpdateAt(p.val, path, 1, newValue) IN
       IF obj = Throw THEN text ELSE JSONStringify(obj)

(***************************************************************************)
(* The stores.  A store state is [json, nodes, selectedNode]; a commit     *)
(* gives the sequence of store states it publishes to subscribers, the     *)
(* last of which is the state it leaves.                                   *)
(***************************************************************************)
Store(j, ns, sel) == [json |-> j, nodes |-> ns, selectedNode |-> sel]

\* useJson's setJson(text)
setJson(s, text) == <<[s EXCEPT !.json = text]>>

\* a commit of the two fields by two set calls
setStateInTwoCalls(s, ns, sel) ==
  <<[s EXCEPT !.nodes = ns], [s EXCEPT !.nodes = ns, !.selectedNode = sel]>>

\* useGraph.setState({ nodes, selectedNode }): one set call
setState(s, ns, sel) == <<[s EXCEPT !.nodes = ns, !.selectedNode = sel]>>

Last(seq) == seq[Len(seq)]

(***************************************************************************)
(* handleSave                                                              *)
(***************************************************************************)
\* row.key && parsedContent[row.key] !== undefined ? parsedContent[row.key]
\*                                                  : row.value
MergedValue(row, parsedContent) ==
  IF ~Truthy(row.key) THEN row.value
  ELSE LET got == GetProp(parsedContent, ToPropertyKey(row.key)) IN
       IF got = Throw THEN Throw
       ELSE IF got # Undefined THEN got ELSE row.value

\* nodeData.text.map(row => ({ ...row, value: ... }))
MergeRows(rows, parsedContent) ==
  [i \in 1..Len(rows) |-> [rows[i] EXCEPT !.value = MergedValue(rows[i], parsedContent)]]

MergeThrows(rows, parsedContent) ==
  \E i \in 1..Len(rows) : MergedValue(rows[i], parsedContent) = Throw

\* a map that gives the merged rows to every node at or below the path
UpdatedNodesByPath(ns, nodeData, parsedContent) ==
  [i \in 1..Len(ns) |->
     IF /\ Len(ns[i].path) >= Len(nodeData.path)
        /\ SubSeq(ns[i].path, 1, Len(nodeData.path)) = nodeData.path
     THEN [ns[i] EXCEPT !.text = MergeRows(nodeData.text, parsedContent)]
     ELSE ns[i]]

\* the nodes.map(...) of the graph store's nodes
UpdatedNodes(ns, nodeData, parsedContent) ==
  [i \in 1..Len(ns) |->
     IF ns[i].id = nodeData.id
     THEN [ns[i] EXCEPT !.text = MergeRows(nodeData.text, parsedContent)]
     ELSE ns[i]]

\* { ...nodeData, text: nodeData.text.map(...) }
UpdatedSelectedNode(nodeData, parsedContent) ==
  [nodeData EXCEPT !.text = MergeRows(nodeData.text, parsedContent)]

\* An outcome of handleSave is [published, store, isEditing]: the store
\* states it published, the store state it leaves and the mode.
Outcome(pub, s, editing) == [published |-> pub, store |-> s, isEditing |-> editing]

\* the handler after setJson(updatedJson) published docCommit: a TypeError
\* of the merge is caught before useGraph.setState and setIsEditing(false)
SaveMerge(nodeData, parsedContent, docCommit, editing) ==
  IF MergeThrows(nodeData.text, parsedContent)
  THEN Outcome(docCommit, Last(docCommit), editing)
  ELSE \* the commit to the graph store, then setIsEditing(false)
       LET graphCommit ==
             setState(Last(docCommit),
                           UpdatedNodes(Last(docCommit).nodes, nodeData, parsedContent),
                           UpdatedSelectedNode(nodeData, parsedContent))
       IN Outcome(docCommit \o graphCommit, Last(graphCommit), FALSE)

\* a handler that leaves the editor in a finally clause
SaveParsedLeavesEditor(s, nodeData, p, editing) ==
  IF ~p.ok THEN Outcome(<<>>, s, FALSE)
  ELSE SaveMerge(nodeData, p.val,
                 setJson(s, updateJsonAtPath(s.json, nodeData.path, p.val)), editing)

\* the handler after JSON.parse(editedContent) gave p: a SyntaxError is
\* caught and logged
SaveParsed(s, nodeData, p, editing) ==
  IF ~p.ok THEN Outcome(<<>>, s, editing)
  ELSE SaveMerge(nodeData, p.val,
                 setJson(s, updateJsonAtPath(s.json, nodeData.path, p.val)), editing)

\* handleSave from store state s with the selected node nodeData and the
\* draft content
SaveOutcome(s, nodeData, content, editing) ==
  IF nodeData = NullNode THEN Outcome(<<>>, s, editing)
  ELSE SaveParsed(s, nodeData, JSONParse(content), editing)

(***************************************************************************)
(* The graph a document is shown as (built outside this component): one    *)
(* node per object, with a row per field, and one node with a single       *)
(* keyless row per scalar that is the root or an array element.  The row   *)
(* of an array or object field holds no value of its own.                  *)
(***************************************************************************)
TypeTag(v) == IF IsContainer(v) THEN Tag(v) ELSE "scalar"

FieldRow(p) == Row(Str(p[1]), IF IsContainer(p[2]) THEN Undefined ELSE p[2], TypeTag(p[2]))

RECURSIVE NodesOf(_, _)
RECURSIVE FieldNodes(_, _, _)
RECURSIVE ElementNodes(_, _, _)

FieldNodes(ps, i, path) ==
  IF i > Len(ps) THEN <<>>
  ELSE (IF IsContainer(ps[i][2]) THEN NodesOf(ps[i][2], Append(path, Str(ps[i][1])))
        ELSE <<>>)
       \o FieldNodes(ps, i + 1, path)

ElementNodes(es, i, path) ==
  IF i > Len(es) THEN <<>>
  ELSE NodesOf(es[i], Append(path, Num(i - 1))) \o ElementNodes(es, i + 1, path)

NodesOf(v, path) ==
  CASE Tag(v) = "object" ->
         <<[path |-> path, text |-> [i \in 1..Len(Val(v)) |-> FieldRow(Val(v)[i])]]>>
         \o FieldNodes(Val(v), 1, path)
    [] Tag(v) = "array" -> ElementNodes(Val(v), 1, path)
    [] OTHER -> <<[path |-> path, text |-> <<Row(Null, v, "scalar")>>]>>

BuildNodes(doc) ==
  LET ns == NodesOf(doc, <<>>) IN
  [i \in 1..Len(ns) |-> Node(i, ns[i].path, ns[i].text)]

(***************************************************************************)
(* Bounds of the model: the documents the session starts from, the texts   *)
(* typed into the textarea, the number of saves of one behaviour.          *)
(***************************************************************************)
MaxSaves == 2

KeyA == <<"a">>
KeyB == <<"b">>
KeyEmpty == <<>>
KeyValueOf == <<"v", "a", "l", "u", "e", "O", "f">>

InitialDocuments ==
  { \* {"a": 1, "b": [5, "x"]}
    Obj(<< <<KeyA, Num(1)>>, <<KeyB, Arr(<<Num(5), Str(<<"x">>)>>)>> >>),
    \* {"": 1, "valueOf": true, "a": {"b": {"a": null}}}
    Obj(<< <<KeyEmpty, Num(1)>>, <<KeyValueOf, Bool(TRUE)>>,
           <<KeyA, Obj(<< <<KeyB, Obj(<< <<KeyA, Null>> >>)>> >>)>> >>),
    \* 7
    Num(7) }

DraftValues ==
  { Obj(<< <<KeyA, Num(2)>> >>),
    Obj(<<>>),
    Obj(<< <<KeyA, Null>>, <<KeyB, Num(3)>>, <<KeyEmpty, Num(2)>> >>),
    Null,
    Num(7),
    Str(<<"x">>),
    Arr(<<Num(1)>>) }

\* {"a":2} typed without line breaks, and two texts that are not JSON
CompactDraft == <<"{", "\"", "a", "\"", ":", "2", "}">>
InvalidDrafts == { <<"{", "\"", "a", "\"", ":", "}">>, <<"x">> }

DraftTexts == {JSONStringify(v) : v \in DraftValues} \cup {CompactDraft} \cup InvalidDrafts

(***************************************************************************)
(* The session: the two stores, the component state (isEditing,            *)
(* editedContent) and, for the properties, the store state before the     *)
(* last handler ran (pre), the handler (lastOp), the same for the handler  *)
(* before it (prevPre, prevOp) and the store states the last handler       *)
(* published (observed).  The variable patch belongs to the specification  *)
(* of updateJsonAtPath on its own and stays NoPatch in the session.        *)
(***************************************************************************)
Snapshot == Store(json, nodes, selectedNode)

\* the history the properties read: the store state before each of the
\* last two handlers
Record ==
  /\ pre' = Snapshot
  /\ prevOp' = lastOp
  /\ prevPre' = pre

\* the record of a call of updateJsonAtPath: its three arguments and the
\* text it returned; NoPatch before any call
PatchCall(text, path, newValue, result) ==
  [called |-> TRUE, text |-> text, path |-> path, newValue |-> newValue,
   result |-> result]

NoPatch ==
  [called |-> FALSE, text |-> <<>>, path |-> <<>>, newValue |-> Undefined,
   result |-> <<>>]

Init ==
  /\ \E doc \in InitialDocuments :
       /\ json = JSONStringify(doc)
       /\ nodes = BuildNodes(doc)
  /\ selectedNode = NullNode
  /\ isEditing = FALSE
  /\ editedContent = <<>>
  /\ lastOp = "init"
  /\ pre = Store(json, nodes, NullNode)
  /\ prevOp = "init"
  /\ prevPre = pre
  /\ observed = <<>>
  /\ saves = 0
  /\ patch = NoPatch

\* the graph view selects a node (or none) while the modal shows no editor
SelectNode ==
  /\ ~isEditing
  /\ \E n \in {nodes[i] : i \in 1..Len(nodes)} \cup {NullNode} :
       /\ n # selectedNode
       /\ selectedNode' = n
  /\ lastOp' = "select"
  /\ Record
  /\ observed' = <<>>
  /\ UNCHANGED <<json, nodes, isEditing, editedContent, saves, patch>>

\* handleEdit invoked whether or not a node is selected
handleEditUnguarded ==
  /\ ~isEditing
  /\ editedContent' = normalizeNodeData(selectedNode.text)
  /\ isEditing' = TRUE
  /\ lastOp' = "edit"
  /\ Record
  /\ observed' = <<>>
  /\ UNCHANGED <<json, nodes, selectedNode, saves, patch>>

\* the Edit button, rendered for a selected node outside editing
handleEdit ==
  /\ selectedNode # NullNode
  /\ ~isEditing
  /\ editedContent' = normalizeNodeData(selectedNode.text)
  /\ isEditing' = TRUE
  /\ lastOp' = "edit"
  /\ Record
  /\ observed' = <<>>
  /\ UNCHANGED <<json, nodes, selectedNode, saves, patch>>

\* the textarea's onChange
OnChange ==
  /\ selectedNode # NullNode
  /\ isEditing
  /\ \E t \in DraftTexts :
       /\ t # editedContent
       /\ editedContent' = t
  /\ lastOp' = "change"
  /\ Record
  /\ observed' = <<>>
  /\ UNCHANGED <<json, nodes, selectedNode, isEditing, saves, patch>>

\* the Save button
handleSave ==
  /\ selectedNode # NullNode
  /\ isEditing
  /\ saves < MaxSaves
  /\ \E out \in {SaveOutcome(Store(json, nodes, selectedNode), selectedNode,
                              editedContent, isEditing)} :
       /\ json' = out.store.json
       /\ nodes' = out.store.nodes
       /\ selectedNode' = out.store.selectedNode
       /\ isEditing' = out.isEditing
       /\ observed' = out.published
  /\ lastOp' = "save"
  /\ Record
  /\ saves' = saves + 1
  /\ UNCHANGED <<editedContent, patch>>

\* a cancel that forgets setEditedContent("")
handleCancelKeepsDraft ==
  /\ selectedNode # NullNode
  /\ isEditing
  /\ isEditing' = FALSE
  /\ lastOp' = "cancel"
  /\ Record
  /\ observed' = <<>>
  /\ UNCHANGED <<json, nodes, selectedNode, editedContent, saves, patch>>

\* the Cancel button
handleCancel ==
  /\ selectedNode # NullNode
  /\ isEditing
  /\ isEditing' = FALSE
  /\ editedContent' = <<>>
  /\ lastOp' = "cancel"
  /\ Record
  /\ observed' = <<>>
  /\ UNCHANGED <<json, nodes, selectedNode, saves, patch>>

Next == SelectNode \/ handleEdit \/ OnChange \/ handleSave \/ handleCancel

Spec == Init /\ [][Next]_vars

(***************************************************************************)
(* updateJsonAtPath on its own: calls of the function on documents, paths  *)
(* and values the session need not reach, among them texts that are not    *)
(* JSON.  The documents are given with their keys in the order of the      *)
(* text.                                                                   *)
(***************************************************************************)
KeyOne == <<"1">>

PatchDocuments ==
  { \* {"a":1,"b":[5,"x"]}
    Obj(<< <<KeyA, Num(1)>>, <<KeyB, Arr(<<Num(5), Str(<<"x">>)>>)>> >>),
    \* {"a":{"b":{"a":null}}}
    Obj(<< <<KeyA, Obj(<< <<KeyB, Obj(<< <<KeyA, Null>> >>)>> >>)>> >>),
    \* {"b":1,"1":2}
    Obj(<< <<KeyB, Num(1)>>, <<KeyOne, Num(2)>> >>),
    \* [1,[2]]
    Arr(<<Num(1), Arr(<<Num(2)>>)>>),
    \* 7
    Num(7) }

\* texts JSON.parse rejects: the two invalid drafts and the empty text
PatchInvalidTexts == InvalidDrafts \cup {<<>>}

PatchTexts == {JSONStringify(d) : d \in PatchDocuments} \cup PatchInvalidTexts

PatchPaths ==
  { <<>>,
    <<Str(KeyA)>>, <<Str(KeyB)>>, <<Str(KeyOne)>>, <<Num(0)>>,
    <<Str(KeyB), Num(0)>>, <<Str(KeyB), Num(3)>>, <<Str(KeyB), Str(KeyA)>>,
    <<Str(KeyA), Str(KeyB)>>, <<Str(KeyA), Str(KeyB), Str(KeyA)>>,
    <<Num(1), Num(0)>> }

PatchValues ==
  { Num(9), Null, Str(<<"x">>), Arr(<<Num(1)>>), Obj(<< <<KeyA, Num(2)>> >>) }

ApplyPatch ==
  /\ \E text \in PatchTexts, path \in PatchPaths, newValue \in PatchValues :
       patch' = PatchCall(text, path, newValue,
                          updateJsonAtPath(text, path, newValue))
  /\ UNCHANGED <<json, nodes, selectedNode, isEditing, editedContent,
                 lastOp, pre, prevOp, prevPre, observed, saves>>

PatchSpec == Init /\ [][ApplyPatch]_vars

(***************************************************************************)
(* Vocabulary of the properties                                            *)
(***************************************************************************)
\* the draft the last save read (handleSave leaves editedContent alone)
SavedDraft == JSONParse(editedContent)

\* the last handler was a save that reached setIsEditing(false)
SaveSucceeded == lastOp = "save" /\ ~isEditing

\* the own child of a container that a segment addresses, or Undefined
OwnChild(v, seg) ==
  IF Tag(v) = "object" /\ Tag(seg) = "string" /\ OwnIndex(Val(v), Val(seg)) # 0
  THEN Val(v)[OwnIndex(Val(v), Val(seg))][2]
  ELSE IF Tag(v) = "array" /\ Tag(seg) = "number"
          /\ Val(seg) >= 0 /\ Val(seg) < Len(Val(v))
  THEN Val(v)[Val(seg) + 1]
  ELSE Undefined

\* the value of the document at a path, or Undefined where the path
\* addresses nothing
RECURSIVE ValueAt(_, _, _)
ValueAt(v, path, i) ==
  IF i > Len(path) THEN v ELSE ValueAt(OwnChild(v, path[i]), path, i + 1)

\* every intermediate segment of the path addresses an existing container
IntermediatesResolve(doc, path) ==
  \A n \in 1..(Len(path) - 1) : IsContainer(ValueAt(doc, SubSeq(path, 1, n), 1))

PathResolutionFails(doc, path) == Len(path) > 0 /\ ~IntermediatesResolve(doc, path)

\* the last save parsed its draft and its patch step met a path that does
\* not resolve in the document it read
SavePathFailed ==
  /\ lastOp = "save"
  /\ SavedDraft.ok
  /\ JSONParse(pre.json).ok
  /\ PathResolutionFails(JSONParse(pre.json).val, pre.selectedNode.path)

(***************************************************************************)
(* C1: a save whose draft text is not valid JSON leaves the document       *)
(* text, the node collection and the selected node unchanged, and the      *)
(* mode is still Editing.                                                  *)
(***************************************************************************)
C1_InvalidDraftLeavesStores ==
  (lastOp = "save" /\ ~SavedDraft.ok) => (Snapshot = pre /\ isEditing)

C1_Witness == lastOp = "save" /\ ~SavedDraft.ok /\ isEditing /\ saves = 1

(***************************************************************************)
(* C2: a save whose patch step cannot resolve the selected node's path in  *)
(* the current document aborts: document, node collection and selected     *)
(* node are unchanged and the mode remains Editing.                        *)
(***************************************************************************)
C2_PathFailureAbortsSave == SavePathFailed => (Snapshot = pre /\ isEditing)

(***************************************************************************)
(* C3: a patch whose intermediate segment does not resolve fails with an   *)
(* outcome distinct from every successful outcome: what it returns is not  *)
(* what a patch of the same document at a resolving path returns.          *)
(***************************************************************************)
\* what patches of the text at the resolving paths of the graph return
SuccessfulPatchOutcomes(text) ==
  { updateJsonAtPath(text, path, v) :
      path \in { q \in {<<>>} \cup {nodes[i].path : i \in 1..Len(nodes)} :
                   ~PathResolutionFails(JSONParse(text).val, q) },
      v \in DraftValues }

\* the patch of the last save read pre.json and returned the text json holds
C3_PathFailureIsDistinctOutcome ==
  SavePathFailed => json \notin SuccessfulPatchOutcomes(pre.json)

(***************************************************************************)
(* C4: beginEdit, cancel and save keep the stores consistent: if every     *)
(* scalar row of the selected node equals the document's value at the      *)
(* node's path extended by the row's key (at the path itself for a row     *)
(* with no key) before the handler, it does so after it.                   *)
(***************************************************************************)
RowPath(n, row) == IF row.key = Null THEN n.path ELSE Append(n.path, row.key)

RowsAgree(n, text) ==
  /\ JSONParse(text).ok
  /\ \A i \in 1..Len(n.text) :
       n.text[i].type = "scalar" =>
         n.text[i].value = ValueAt(JSONParse(text).val, RowPath(n, n.text[i]), 1)

C4_StoresStayConsistent ==
  (lastOp \in {"edit", "cancel", "save"} /\ RowsAgree(pre.selectedNode, pre.json))
    => RowsAgree(selectedNode, json)

(***************************************************************************)
(* C5: beginEdit followed by cancel leaves the document text, the node     *)
(* collection and the selected node as they were before beginEdit, and     *)
(* ends in mode Viewing with the draft discarded.                          *)
(***************************************************************************)
C5_EditThenCancelRestores ==
  (lastOp = "cancel" /\ prevOp = "edit")
    => (Snapshot = prevPre /\ ~isEditing /\ editedContent = <<>>)

C5_Witness ==
  lastOp = "cancel" /\ prevOp = "edit" /\ ~isEditing /\ Len(selectedNode.text) > 1

(***************************************************************************)
(* C6: after a successful save every row of the selected node whose type   *)
(* is array or object has the value it had before the save.                *)
(***************************************************************************)
C6_ContainerRowsRetainValue ==
  SaveSucceeded =>
    \A i \in 1..Len(pre.selectedNode.text) :
      pre.selectedNode.text[i].type \in {"array", "object"} =>
        selectedNode.text[i].value = pre.selectedNode.text[i].value

(***************************************************************************)
(* C7: after a successful save on a node whose row has no key, that row's  *)
(* value is the whole parsed draft value.                                  *)
(***************************************************************************)
C7_KeylessRowTakesDraft ==
  SaveSucceeded =>
    \A i \in 1..Len(pre.selectedNode.text) :
      pre.selectedNode.text[i].key = Null => selectedNode.text[i].value = SavedDraft.val

(***************************************************************************)
(* C8: after a successful save, a keyed scalar row whose key is a key of   *)
(* the parsed draft holds the draft's value for that key, a keyed scalar   *)
(* row whose key is absent from the draft is unchanged, and the node's     *)
(* row count, order, keys and type tags are unchanged.                     *)
(***************************************************************************)
\* k is a key of the JSON value v
HasKey(v, k) ==
  \/ Tag(v) = "object" /\ OwnIndex(Val(v), k) # 0
  \/ Tag(v) = "array" /\ IsIndexKey(k) /\ IndexOf(k) < Len(Val(v))

C8_KeyedRowsFollowDraft ==
  SaveSucceeded =>
    /\ Len(selectedNode.text) = Len(pre.selectedNode.text)
    /\ \A i \in 1..Len(pre.selectedNode.text) :
         LET old == pre.selectedNode.text[i]
             new == selectedNode.text[i]
         IN /\ new.key = old.key
            /\ new.type = old.type
            /\ (old.key # Null /\ old.type = "scalar") =>
                 new.value = IF HasKey(SavedDraft.val, Val(old.key))
                             THEN GetProp(SavedDraft.val, Val(old.key))
                             ELSE old.value

(***************************************************************************)
(* C9: the document commit and the node-graph commit of a save are one     *)
(* observable update: every store state a save publishes is the state      *)
(* before the save or the state after it.                                  *)
(***************************************************************************)
C9_CommitIsOneUpdate ==
  lastOp = "save" => \A i \in 1..Len(observed) : observed[i] \in {pre, Snapshot}

(***************************************************************************)
(* C10: a save updates the node collection and the selected node in one    *)
(* transition: in every store state it publishes the two are both as       *)
(* before the save or both as after it, and the collection's entry of the  *)
(* selected node carries the selected node's rows.                         *)
(***************************************************************************)
GraphPart(s) == <<s.nodes, s.selectedNode>>

EntryCarriesSelectedRows(s) ==
  \A i \in 1..Len(s.nodes) :
    s.nodes[i].id = s.selectedNode.id => s.nodes[i].text = s.selectedNode.text

C10_NodesAndSelectionTogether ==
  lastOp = "save" =>
    /\ \A i \in 1..Len(observed) :
         /\ GraphPart(observed[i]) \in {GraphPart(pre), GraphPart(Snapshot)}
         /\ EntryCarriesSelectedRows(observed[i])
    /\ EntryCarriesSelectedRows(Snapshot)

C10_Witness ==
  /\ SaveSucceeded
  /\ Len(observed) = 2
  /\ nodes # pre.nodes
  /\ selectedNode # pre.selectedNode

(***************************************************************************)
(* Vocabulary of the properties of updateJsonAtPath                        *)
(***************************************************************************)
\* the document the recorded call read, as JSON.parse gives it
PatchedDocument == JSONParse(patch.text)

\* the recorded call read a valid document
PatchReadDocument == patch.called /\ PatchedDocument.ok

\* the container the final segment of a path is assigned into
ParentAt(doc, path) == ValueAt(doc, SubSeq(path, 1, Len(path) - 1), 1)

\* the final segment fits its parent: a string key into an object, an index
\* into an array
FinalSegmentFits(doc, path) ==
  \/ Len(path) = 0
  \/ /\ Tag(ParentAt(doc, path)) = "object"
     /\ Tag(path[Len(path)]) = "string"
  \/ /\ Tag(ParentAt(doc, path)) = "array"
     /\ Tag(path[Len(path)]) = "number"
     /\ Val(path[Len(path)]) >= 0

\* the text the call returned parses, and holds newValue at the path
PatchRoundTrips ==
  /\ JSONParse(patch.result).ok
  /\ ValueAt(JSONParse(patch.result).val, patch.path, 1) = patch.newValue

(***************************************************************************)
(* C11: for a valid document and a path (the empty path included) whose    *)
(* intermediate segments all address existing containers, the text         *)
(* updateJsonAtPath returns parses and holds exactly newValue at the path. *)
(* As stated, for every such path:                                         *)
(***************************************************************************)
C11_PatchRoundTripAsStated ==
  (PatchReadDocument /\ IntermediatesResolve(PatchedDocument.val, patch.path))
    => PatchRoundTrips

\* C11, amended: the same, for the paths whose final segment is a string
\* key assigned into an object or a non-negative index assigned into an
\* array (the root, for a path of one segment)
C11_PatchRoundTrip ==
  (/\ PatchReadDocument
   /\ IntermediatesResolve(PatchedDocument.val, patch.path)
   /\ FinalSegmentFits(PatchedDocument.val, patch.path))
    => PatchRoundTrips

\* a patch two segments deep into a valid document that changed the text
C11_Witness ==
  /\ PatchReadDocument
  /\ Len(patch.path) >= 2
  /\ IntermediatesResolve(PatchedDocument.val, patch.path)
  /\ FinalSegmentFits(PatchedDocument.val, patch.path)
  /\ patch.result # patch.text
  /\ PatchRoundTrips

(***************************************************************************)
(* C12: a successful patch with a non-empty path leaves every location     *)
(* that is not at or below the path as it was: the siblings of every       *)
(* segment keep their values, every object keeps its key order and every   *)
(* array its element order.                                                *)
(***************************************************************************)
\* the document of the recorded call with its keys in the order of the text
DocumentInTextOrder ==
  CHOOSE d \in PatchDocuments : JSONStringify(d) = patch.text

\* the assignment of spec 4.3 into one container: the addressed field or
\* index overwritten where it stands, or created after the last one
AssignInPlace(v, seg, x) ==
  IF Tag(v) = "object"
  THEN IF OwnIndex(Val(v), Val(seg)) # 0
       THEN Obj([Val(v) EXCEPT ![OwnIndex(Val(v), Val(seg))] = <<Val(seg), x>>])
       ELSE Obj(Append(Val(v), <<Val(seg), x>>))
  ELSE IF Val(seg) < Len(Val(v))
       THEN Arr([Val(v) EXCEPT ![Val(seg) + 1] = x])
       ELSE Arr(Append(Val(v), x))

\* a document with the location at the path blanked, every other location
\* where and as it is
RECURSIVE Masked(_, _, _)
Masked(v, path, i) ==
  IF i = Len(path) THEN AssignInPlace(v, path[i], Null)
  ELSE AssignInPlace(v, path[i], Masked(OwnChild(v, path[i]), path, i + 1))

\* the recorded call is a patch at a non-empty path that resolves
PatchApplies ==
  /\ patch.called
  /\ patch.text \in {JSONStringify(d) : d \in PatchDocuments}
  /\ Len(patch.path) > 0
  /\ IntermediatesResolve(DocumentInTextOrder, patch.path)
  /\ FinalSegmentFits(DocumentInTextOrder, patch.path)

C12_PatchLeavesTheRest ==
  PatchApplies =>
    /\ JSONParse(patch.result).ok
    /\ Masked(JSONParse(patch.result).val, patch.path, 1)
         = Masked(DocumentInTextOrder, patch.path, 1)

(***************************************************************************)
(* C13: for a document text that is not valid JSON, updateJsonAtPath       *)
(* returns that text itself, whatever the path and the new value: the      *)
(* error of the parse ends in the catch, which returns the argument.       *)
(***************************************************************************)
\* the recorded call read a text JSON.parse rejects
PatchReadInvalidText == patch.called /\ ~JSONParse(patch.text).ok

C13_InvalidDocumentReturned ==
  PatchReadInvalidText => patch.result = patch.text

\* a call on a non-empty text that is not JSON, at the empty path
C13_Witness ==
  /\ PatchReadInvalidText
  /\ patch.text # <<>>
  /\ patch.path = <<>>
  /\ patch.result = patch.text

(***************************************************************************)
(* C14: the document store holds valid JSON at the start, and after every  *)
(* sequence of edits, changes of the draft, cancels and saves, on whatever *)
(* node and with whatever draft, its text still parses as JSON.            *)
(***************************************************************************)
C14_DocumentStaysValid == JSONParse(json).ok

\* a second save in a row has rewritten the document text
C14_Witness ==
  /\ SaveSucceeded
  /\ saves = MaxSaves
  /\ json # pre.json
  /\ Len(pre.selectedNode.path) > 0

(***************************************************************************)
(* C15: an edit begun on a selected node takes the modal from viewing to   *)
(* editing with the draft normalizeNodeData gives for the node's rows;     *)
(* while no node is selected no edit begins: the mode stays viewing and    *)
(* the draft is what it was.                                               *)
(***************************************************************************)
C15_BeginEdit ==
  [][ /\ lastOp' = "edit" =>
           /\ selectedNode # NullNode
           /\ ~isEditing /\ isEditing'
           /\ editedContent' = normalizeNodeData(selectedNode.text)
      /\ selectedNode = NullNode =>
           /\ ~isEditing /\ ~isEditing'
           /\ editedContent' = editedContent ]_vars

\* an edit has just begun on a node of several rows that was selected in
\* the step before
C15_Witness ==
  /\ lastOp = "edit"
  /\ prevOp = "select"
  /\ isEditing
  /\ Len(selectedNode.text) > 1
  /\ editedContent = normalizeNodeData(selectedNode.text)

(***************************************************************************)
(* C16: the draft normalizeNodeData gives is that of the reference: "{}"   *)
(* for no rows; for a single row without a key the row's value as JSON     *)
(* text, which parses back to the value, a string included; otherwise the  *)
(* two-space serialization of the object that holds the scalar rows under  *)
(* their keys in row order and leaves the array and object rows out.       *)
(***************************************************************************)
\* the row has a key (the empty key is a key)
RowHasKey(row) == Tag(row.key) = "string"

\* the scalar rows as fields, in row order
RECURSIVE ScalarFields(_, _)
ScalarFields(rows, i) ==
  IF i > Len(rows) THEN <<>>
  ELSE (IF rows[i].type = "scalar" /\ RowHasKey(rows[i])
        THEN << <<Val(rows[i].key), rows[i].value>> >>
        ELSE <<>>)
       \o ScalarFields(rows, i + 1)

ReferenceNormalize(rows) ==
  IF Len(rows) = 0 THEN <<"{", "}">>
  ELSE IF Len(rows) = 1 /\ ~RowHasKey(rows[1]) THEN JSONStringify(rows[1].value)
  ELSE JSONStringify(Obj(ScalarFields(rows, 1)))

C16_NormalizeAgreesWithReference ==
  lastOp = "edit" =>
    /\ editedContent = ReferenceNormalize(selectedNode.text)
    /\ (Len(selectedNode.text) = 1 /\ ~RowHasKey(selectedNode.text[1])) =>
         (/\ JSONParse(editedContent).ok
          /\ JSONParse(editedContent).val = selectedNode.text[1].value)

(***************************************************************************)
(* C17: a save is all or nothing, whatever the draft (an object, null, a   *)
(* number, a string, an array, a text that is not JSON): it ends either in *)
(* viewing with the document text, the nodes and the selected node all     *)
(* holding the values of the save, or in editing with all three exactly as *)
(* they were before the save.                                              *)
(***************************************************************************)
\* the three stores hold what a save of the parsed draft writes
StoresHoldUpdate ==
  /\ SavedDraft.ok
  /\ json = updateJsonAtPath(pre.json, pre.selectedNode.path, SavedDraft.val)
  /\ nodes = UpdatedNodes(pre.nodes, pre.selectedNode, SavedDraft.val)
  /\ selectedNode = UpdatedSelectedNode(pre.selectedNode, SavedDraft.val)

C17_SaveIsAllOrNothing ==
  lastOp = "save" =>
    \/ ~isEditing /\ StoresHoldUpdate
    \/ isEditing /\ Snapshot = pre

(***************************************************************************)
(* C18: a successful save on a node with array or object rows removes no   *)
(* nested container from the document: for each such row, the document    *)
(* holds at the node's path extended by the row's key the same value       *)
(* after the save as before it.                                            *)
(***************************************************************************)
\* the value the document text holds at the place of a row of the node
\* selected before the last handler
ValueUnderRow(text, row) ==
  ValueAt(JSONParse(text).val, Append(pre.selectedNode.path, row.key), 1)

C18_NestedContainersKept ==
  SaveSucceeded =>
    \A i \in 1..Len(pre.selectedNode.text) :
      pre.selectedNode.text[i].type \in {"array", "object"} =>
        ValueUnderRow(json, pre.selectedNode.text[i])
          = ValueUnderRow(pre.json, pre.selectedNode.text[i])

(***************************************************************************)
(* C19: an edit begun on a node and saved at once, the seeded draft left   *)
(* as it is, always succeeds: the modal is back in viewing and the rows    *)
(* of the selected node are the rows it had before the edit began.         *)
(***************************************************************************)
\* the last two handlers were handleEdit and then handleSave
SavedUnedited == prevOp = "edit" /\ lastOp = "save"

C19_UneditedSaveSucceeds ==
  SavedUnedited =>
    /\ ~isEditing
    /\ selectedNode.text = prevPre.selectedNode.text

(***************************************************************************)
(* C20: a save changes at most the node whose id is the selected node's:   *)
(* the collection keeps its length and order, every node with another id   *)
(* is unchanged, and after a successful save every entry with the          *)
(* selected id has the rows of the selected node the save committed.       *)
(***************************************************************************)
C20_OnlySelectedNodeChanges ==
  lastOp = "save" =>
    /\ Len(nodes) = Len(pre.nodes)
    /\ \A i \in 1..Len(nodes) :
         /\ nodes[i].id = pre.nodes[i].id
         /\ nodes[i].path = pre.nodes[i].path
         /\ nodes[i].id # pre.selectedNode.id => nodes[i] = pre.nodes[i]
         /\ (SaveSucceeded /\ nodes[i].id = selectedNode.id) =>
              nodes[i].text = selectedNode.text

\* a successful save changed the rows of the selected node in a collection
\* that holds nodes below it
C20_Witness ==
  /\ SaveSucceeded
  /\ nodes # pre.nodes
  /\ \E i \in 1..Len(nodes) :
       /\ nodes[i].id # selectedNode.id
       /\ Len(nodes[i].path) > Len(selectedNode.path)
  /\ \E i \in 1..Len(nodes) :
       /\ nodes[i].id = selectedNode.id
       /\ nodes[i].text # pre.nodes[i].text

====
